---- MODULE Spec2Model ----
(***************************************************************************)
(* Book2AI retrieval-and-streaming answer pipeline.                        *)
(*                                                                         *)
(* Three request handlers are modelled, each from its source:              *)
(*   "orch"  the retrieval orchestrator with the live completion relay     *)
(*           (app/api/ask/stream/route.ts, revision in unnamed/part_005),  *)
(*   "sim"   the simulated, timer-driven transport that re-frames the      *)
(*           answer of /api/ask (app/api/ask/stream/route.ts, 365-482),    *)
(*   "ask"   the non-streaming /api/ask handler (app/api/ask/route.ts).    *)
(* together with the pack runtime (lib/pack-runtime.ts, kept in            *)
(* scripts/op_make_manifest.mjs 130-310).                                  *)
(*                                                                         *)
(* Numbers: a similarity score is an integer in units of 1e-4, so 0.88 is  *)
(* 8800 and 0.8799 is 8799.  An embedding vector stored in a pack is a     *)
(* token [kind, n]; a query vector is represented by its cosine against    *)
(* every stored vector of the pack it is compared with.                    *)
(***************************************************************************)
EXTENDS Integers, Sequences, FiniteSets, TLC

\* ------------------------------------------------------------------ bounds
\* Rows (ids, vectors) of a pack given to a function on its own.
MaxRows == 3
\* Largest result count given to a function on its own.
MaxK == 5
\* Requests served in one behaviour.
MaxRequests == 2
\* Upstream reads that carry a value, per relayed completion.
MaxReads == 2
\* Longest answer string handed to the simulated transport.
MaxAnsLen == 97
MaxCuts == 2
MaxAsks == 2
MaxMsgs == 3
MaxQueue == 3

\* ------------------------------------------------------- program constants
QA_THRESHOLD == 8800
K_MIN == 3
K_MAX == 8
K_DEFAULT == 5
CHUNK_SIZE == 48
BATCH_DEFAULT == 200
QA_BATCH == 64
SCORE_INIT == -10000

DefaultPack == "scientific-advertising"
Nil == "nil"

\* ------------------------------------------------------------ generalities
Min(a, b) == IF a <= b THEN a ELSE b
Max(a, b) == IF a >= b THEN a ELSE b

Range(s) == {s[i] : i \in 1..Len(s)}

\* Array.prototype.slice(from, to) with 0-based, end-exclusive bounds; a
\* negative bound counts from the end.
Slice(s, from, to) ==
  LET a == IF from < 0 THEN Max(Len(s) + from, 0) ELSE Min(from, Len(s))
      b == IF to < 0 THEN Max(Len(s) + to, 0) ELSE Min(to, Len(s))
  IN  IF b <= a THEN <<>> ELSE [i \in 1..(b - a) |-> s[a + i]]

RECURSIVE Concat(_)
Concat(ss) == IF ss = <<>> THEN <<>> ELSE Head(ss) \o Concat(Tail(ss))

\* ------------------------------------------------------ the packs on disk
\* public/packs/<id>/{chunks.jsonl, embeddings.json, qa.jsonl}.  A file is
\* absent ("missing"), unparseable ("corrupt") or holds a parsed value.
NoFile == [state |-> "missing"]
Corrupt == [state |-> "corrupt"]
File(data) == [state |-> "ok", data |-> data]

PackIds ==
  {"scientific-advertising", "optimal-poker", "empty-pack", "bad-json",
   "no-such-pack"}

\* A chunk or Q&A field that is absent is the empty string (both are falsy).
TextChunk(id) == [id |-> id, type |-> "text", q |-> "", a |-> <<>>]
QaChunk(id, q, a) == [id |-> id, type |-> "qa", q |-> q, a |-> a]
ChunkVec(id) == [kind |-> "c", of |-> id]
QuestionVec(q) == [kind |-> "q", of |-> q]

\* chunks.jsonl
ChunksFile(packId) ==
  CASE packId = "scientific-advertising" ->
         File(<<TextChunk("c1"), TextChunk("c2"), TextChunk("c3"),
                TextChunk("c4")>>)
    [] packId = "optimal-poker" ->
         File(<<TextChunk("p1"), TextChunk("p2"),
                QaChunk("p3", "Q3", <<"n", "o">>)>>)
    [] packId = "many-qa" -> File(<<TextChunk("m1")>>)
    [] packId = "empty-pack" -> File(<<TextChunk("e1")>>)
    [] packId = "bad-json" -> File(<<TextChunk("b1")>>)
    [] OTHER -> NoFile

\* embeddings.json: the parallel arrays ids / vectors.  In optimal-poker
\* the embedding file has drifted from the corpus: "gone" is no chunk.
EmbeddingsFileOf(packId) ==
  CASE packId = "scientific-advertising" ->
         File([ids |-> <<"c1", "c2", "c3", "c4">>,
               vectors |-> <<ChunkVec("c1"), ChunkVec("c2"), ChunkVec("c3"),
                             ChunkVec("c4")>>])
    [] packId = "optimal-poker" ->
         File([ids |-> <<"p1", "gone", "p2", "p3">>,
               vectors |-> <<ChunkVec("p1"), ChunkVec("gone"), ChunkVec("p2"),
                             ChunkVec("p3")>>])
    [] packId = "many-qa" ->
         File([ids |-> <<"m1">>, vectors |-> <<ChunkVec("m1")>>])
    [] packId = "empty-pack" -> File([ids |-> <<>>, vectors |-> <<>>])
    [] packId = "bad-json" -> Corrupt
    [] OTHER -> NoFile

\* qa.jsonl
QaFile(packId) ==
  CASE packId = "scientific-advertising" ->
         File(<<[id |-> "qa1", q |-> "Q1", a |-> <<"y", "e", "s">>,
                 source_chunk |-> "c2"],
                [id |-> "qa2", q |-> "Q2", a |-> <<"n", "o">>,
                 source_chunk |-> ""]>>)
    [] packId = "many-qa" ->
         File([i \in 1..(QA_BATCH + 1) |->
                 [id |-> "mq", q |-> IF i <= QA_BATCH THEN "Q1" ELSE "Q2",
                  a |-> <<"o", "k">>, source_chunk |-> "m1"]])
    [] OTHER -> NoFile

\* ------------------------------------------------------------ pack runtime
DefaultEmbeddings == [ids |-> <<>>, vectors |-> <<>>]
EMBED_MODEL == "text-embedding-3-small"

readJSONL(file) == IF file.state = "missing" THEN <<>> ELSE file.data

\* Variant: a missing embeddings file throws as well.
LoadThrowsIfAbsent(packId) ==
  EmbeddingsFileOf(packId).state \in {"corrupt", "missing"}

\* readJSON throws on a file that does not parse, and loadPack with it.
LoadThrows(packId) == EmbeddingsFileOf(packId).state = "corrupt"

IsQaChunk(c) == c.type = "qa" /\ c.q # "" /\ c.a # <<>>
QaOfChunk(c) == [id |-> c.id, q |-> c.q, a |-> c.a, source_chunk |-> c.id]

\* The pack object loadPack builds on a cache miss.
BuildPack(packId) ==
  LET chunks == readJSONL(ChunksFile(packId))
      embFile == EmbeddingsFileOf(packId)
      embeddings == IF embFile.state = "missing" THEN DefaultEmbeddings
                    ELSE embFile.data
      qaFromFile == readJSONL(QaFile(packId))
      qaChunks == SelectSeq(chunks, IsQaChunk)
      qa == IF Len(qaFromFile) = 0
            THEN [i \in 1..Len(qaChunks) |-> QaOfChunk(qaChunks[i])]
            ELSE qaFromFile
  IN  [id |-> packId, chunks |-> chunks, embeddings |-> embeddings, qa |-> qa,
       qaEmbeds |-> <<>>, qaEmbedModel |-> Nil]

\* cosine(a, b) for a query vector a and a stored vector b.
cosine(a, b) == a[b]

\* bestQaMatch; the result [hit |-> FALSE, ...] is null.
RECURSIVE BestFrom(_, _, _, _, _)
BestFrom(userVec, qaVecs, i, best, bi) ==
  IF i > Len(qaVecs) THEN [best |-> best, bi |-> bi]
  ELSE LET s == cosine(userVec, qaVecs[i])
       IN  IF s > best THEN BestFrom(userVec, qaVecs, i + 1, s, i)
           ELSE BestFrom(userVec, qaVecs, i + 1, best, bi)

NoMatch == [hit |-> FALSE, index |-> 0, score |-> 0]

bestQaMatch(userVec, qaVecs) ==
  IF Len(qaVecs) = 0 THEN NoMatch
  ELSE LET r == BestFrom(userVec, qaVecs, 1, SCORE_INIT, 0)
       IN  IF r.bi >= 1 THEN [hit |-> TRUE, index |-> r.bi, score |-> r.best]
           ELSE NoMatch

\* Array.prototype.sort((a, b) => b.score - a.score) is stable: each element
\* goes after every element whose score is not smaller.
RECURSIVE InsertByScore(_, _)
InsertByScore(sorted, e) ==
  IF sorted = <<>> THEN <<e>>
  ELSE IF Head(sorted).score >= e.score
       THEN <<Head(sorted)>> \o InsertByScore(Tail(sorted), e)
       ELSE <<e>> \o sorted

RECURSIVE SortByScore(_, _)
SortByScore(scores, done) ==
  IF scores = <<>> THEN done
  ELSE SortByScore(Tail(scores), InsertByScore(done, Head(scores)))

\* A JavaScript number that may be NaN.
Num(n) == [nan |-> FALSE, n |-> n]
NaN == [nan |-> TRUE, n |-> 0]

\* Variant: the slice is left out.
TakeAll(s, k) == s

\* slice(0, k): with k = NaN it takes nothing.
TakeK(s, k) == IF k.nan THEN <<>> ELSE Slice(s, 0, k.n)

\* Variant: the rows are taken in file order, unsorted.
topKUnsorted(userVec, ids, vectors, k) ==
  LET n == Min(Len(ids), Len(vectors))
  IN  TakeK([i \in 1..n |->
               [id |-> ids[i], score |-> cosine(userVec, vectors[i]),
                index |-> i - 1]], k)

\* Variant: every vector row is scored, whatever the number of ids (a row
\* without an id gets the id undefined).
topKAllVectors(userVec, ids, vectors, k) ==
  TakeK(SortByScore([i \in 1..Len(vectors) |->
                       [id |-> IF i <= Len(ids) THEN ids[i] ELSE "undefined",
                        score |-> cosine(userVec, vectors[i]),
                        index |-> i - 1]], <<>>), k)

topKByEmbedding(userVec, ids, vectors, k) ==
  LET n == Min(Len(ids), Len(vectors))
      scores == [i \in 1..n |->
                   [id |-> ids[i], score |-> cosine(userVec, vectors[i]),
                    index |-> i - 1]]
  IN  TakeK(SortByScore(scores, <<>>), k)

\* getChunkById: the chunks with this id (the first is the one found).
ChunksWithId(pack, id) == SelectSeq(pack.chunks, LAMBDA c : c.id = id)
HasChunk(pack, id) == ChunksWithId(pack, id) # <<>>
getChunkById(pack, id) == Head(ChunksWithId(pack, id))

\* ------------------------------------------------------------------ text
\* A string is a sequence of one-character strings.
Whitespace == {" ", "\n", "\t"}

RECURSIVE TrimStart(_)
TrimStart(s) ==
  IF s # <<>> /\ Head(s) \in Whitespace THEN TrimStart(Tail(s)) ELSE s

RECURSIVE TrimEnd(_)
TrimEnd(s) ==
  IF s # <<>> /\ s[Len(s)] \in Whitespace
  THEN TrimEnd(SubSeq(s, 1, Len(s) - 1)) ELSE s

\* String.prototype.trim
Trim(s) == TrimEnd(TrimStart(s))

\* Number.prototype.toFixed(2) of a score in [0, 1], as text.
Digits == <<"0", "1", "2", "3", "4", "5", "6", "7", "8", "9">>
ToFixed2(score) ==
  LET h == (score + 50) \div 100
  IN  <<Digits[(h \div 100) + 1], ".", Digits[((h % 100) \div 10) + 1],
        Digits[(h % 10) + 1]>>

\* ---------------------------------------------------------------- frames
\* One frame of the response protocol; every frame has the same fields.
NoSources == <<>>
ChunkFrame(delta) ==
  [type |-> "chunk", delta |-> delta, sources |-> NoSources, message |-> "",
   q |-> <<>>]
DoneFrame(sources) ==
  [type |-> "done", delta |-> <<>>, sources |-> sources, message |-> "",
   q |-> <<>>]
ErrorFrame(message) ==
  [type |-> "error", delta |-> <<>>, sources |-> NoSources,
   message |-> message, q |-> <<>>]
MetaFrame(q) ==
  [type |-> "meta", delta |-> <<>>, sources |-> NoSources, message |-> "",
   q |-> q]

IsTerminal(f) == f.type \in {"done", "error"}

\* ------------------------------------------------- orchestrator, pure parts
\* Number(url.searchParams.get("k") ?? 5)
KParams ==
  {[kind |-> "absent", n |-> 0], [kind |-> "text", n |-> 0],
   [kind |-> "num", n |-> 3]}
NumberOfK(p) ==
  CASE p.kind = "absent" -> Num(K_DEFAULT)
    [] p.kind = "num" -> Num(p.n)
    [] OTHER -> NaN

\* Math.max(3, Math.min(8, x)); NaN propagates through both.
ClampK(x) == IF x.nan THEN NaN ELSE Num(Max(K_MIN, Min(K_MAX, x.n)))

\* top.map(getChunkById).filter(Boolean).slice(0, k)
TopChunks(pack, top, k) ==
  LET found == SelectSeq(top, LAMBDA t : HasChunk(pack, t.id))
  IN  TakeK([i \in 1..Len(found) |-> getChunkById(pack, found[i].id)], k)

\* buildPrompt: the question and the sources, source i labelled [#i id=...].
buildPrompt(userQ, sources) ==
  [q |-> userQ,
   src |-> [i \in 1..Len(sources) |-> [n |-> i, id |-> sources[i].id]]]

\* The done frame of the relay: top.map((t, i) => ({id, score})).
RelaySources(top) ==
  [i \in 1..Len(top) |-> [id |-> top[i].id, score |-> top[i].score]]

\* The Q&A short-circuit: cited id, answer text and done frame.
\* Variant: the Q&A entry's own id is always the one cited.
CitedOwnId(qa) == qa.id

CitedId(qa) == IF qa.source_chunk # "" THEN qa.source_chunk ELSE qa.id
QaAnswer(qa, score) ==
  <<"Matched author Q&A (score ">> \o ToFixed2(score) \o <<"). ">> \o qa.a
    \o <<"\n\nSources: [id=", CitedId(qa), "]">>
QaSources(qa, score) == <<[id |-> CitedId(qa), score |-> score]>>

\* --------------------------------------------------- simulated transport
\* chunkByChars(text, size): slices [i, i + size) for i = 0, size, 2 size, ...
RECURSIVE ChunksFrom(_, _, _)
ChunksFrom(text, size, i) ==
  IF i >= Len(text) THEN <<>>
  ELSE <<Slice(text, i, i + size)>> \o ChunksFrom(text, size, i + size)

\* Variant: the final, shorter window is dropped.
chunkWholeWindows(text, size) ==
  ChunksFrom(SubSeq(text, 1, (Len(text) \div size) * size), size, 0)

chunkByChars(text, size) == ChunksFrom(text, size, 0)

\* ------------------------------------------------------------------ state
Slots == {1}

VARIABLES
  cache,      \* globalThis.__PACK_CACHE__.packs: pack id -> pack object
  bodyBound,  \* whether the free identifier `body` of the orchestrator's GET
              \* resolves in the global environment
  served,     \* requests received so far
  req,        \* per slot: the request being handled and its response
  fn          \* a call of a pure function of the code on its own: the
              \* arguments, and the result once it has returned

vars == <<cache, bodyBound, served, req, fn>>

NoFn == [op |-> "none"]
NoHit == NoMatch
NoPrompt == [q |-> <<>>, src |-> <<>>]

Idle ==
  [pc |-> "idle", ep |-> "none", q |-> <<>>,
   packId |-> "", k |-> Num(0), userQ |-> <<>>,
   calls |-> <<>>,
   resp |-> "none", status |-> 0, frames |-> <<>>, stream |-> "none",
   path |-> "none",
   qVec |-> <<>>, qaOut |-> <<>>, qaI |-> 0, qaHit |-> NoHit,
   top |-> <<>>, topChunks |-> <<>>, prompt |-> NoPrompt,
   upstream |-> "none", pulling |-> FALSE, readsIssued |-> 0, reads |-> 0,
   upLines |-> <<>>,
   answer |-> <<>>, sources |-> <<>>, chunks |-> <<>>, i |-> 0,
   timer |-> FALSE, uncaught |-> 0,
   failed |-> <<>>, fileReads |-> 0, upStatus |-> 0]

Init ==
  /\ cache = <<>>
  /\ bodyBound \in BOOLEAN
  /\ served = 0
  /\ req = [r \in Slots |-> Idle]
  /\ fn = NoFn

\* Variant: the cache lookup never hits.
LoadedNever(packId) == FALSE

\* cache.packs.get(packId) is a hit.
Loaded(packId) == packId \in DOMAIN cache

\* ---------------------------------------------------------- responses
\* new Response(sseJson({type: "error", message}), {status}): a body of one
\* error frame, not a stream the handler keeps writing to.
SseError(rec, status, message) ==
  [rec EXCEPT !.pc = "done", !.resp = "sse-error", !.status = status,
              !.frames = <<ErrorFrame(message)>>]

\* A network call of the request failed (a rejected fetch, a response that
\* is not ok, a rejected read): the call is noted on the request.
Failed(rec, call) == [rec EXCEPT !.failed = Append(@, call)]

\* The handler threw outside its try block: the framework answers 500.
Threw(rec) == [rec EXCEPT !.pc = "done", !.resp = "threw", !.status = 500]

\* ------------------------------------------------------------- inputs
Questions == {<<>>, <<" ", "\n">>, <<" ", "w", "h", "y", " ">>}
PackParams == PackIds \cup {Nil, ""}

\* What the embedding service can answer for a query against this pack: the
\* query vector, given by its cosine with every stored vector of the pack.
ChunkScores == {8000, 9100}
QaScores == {SCORE_INIT, 8799, 8800}
ScoreProfiles ==
  {<<8000, 8000, 8000, 8000>>, <<8000, 9100, 8000, 9100>>,
   <<9100, 8000, 8000, 8000>>, <<8000, 8000, 9100, 9100>>}
QueryVectors(pack) ==
  LET vs == pack.embeddings.vectors
      qv == {QuestionVec(pack.qa[i].q) : i \in 1..Len(pack.qa)}
  IN  {[v \in Range(vs) |-> p[CHOOSE i \in 1..Len(vs) : vs[i] = v]] @@ q :
         p \in ScoreProfiles, q \in [qv -> QaScores]}

\* One upstream read of the completion stream, as the lines it splits into.
Content(d) == [data |-> TRUE, payload |-> "json", delta |-> d]
EmptyDelta == [data |-> TRUE, payload |-> "json", delta |-> <<>>]
BadJson == [data |-> TRUE, payload |-> "bad", delta |-> <<>>]
DoneMark == [data |-> TRUE, payload |-> "[DONE]", delta |-> <<>>]
Blank == [data |-> FALSE, payload |-> "", delta |-> <<>>]
UpstreamReads ==
  {<<Content(<<"a">>), Blank>>,
   <<BadJson, Blank, Content(<<"b">>), Blank>>,
   <<EmptyDelta, Blank, BadJson, Blank, DoneMark, Blank>>}

\* -------------------------------------------------------- orchestrator
Set(r, rec) == req' = [req EXCEPT ![r] = rec]

\* The pack object a request holds is the cache entry of its pack id.
PackOf(r) == cache[req[r].packId]

\* The frames a value read makes pull enqueue: one chunk frame per line that
\* starts with "data:", is not [DONE], parses, and carries a non-empty delta.
Forwarded(line) ==
  line.data /\ line.payload = "json" /\ line.delta # <<>>
\* Variant: the first payload that does not parse ends the loop over the lines.
ProcessReadAbort(lines) ==
  LET bad == {j \in 1..Len(lines) : lines[j].data /\ lines[j].payload = "bad"}
      upto == IF bad = {} THEN Len(lines)
              ELSE (CHOOSE j \in bad : \A m \in bad : j <= m) - 1
      kept == SelectSeq(SubSeq(lines, 1, upto), Forwarded)
  IN  [i \in 1..Len(kept) |-> ChunkFrame(kept[i].delta)]

ProcessRead(lines) ==
  LET kept == SelectSeq(lines, Forwarded)
  IN  [i \in 1..Len(kept) |-> ChunkFrame(kept[i].delta)]

\* POST passthrough: a body field is copied into the query string only if it
\* is truthy (pack) or a number (k); the request is then handed to GET.  An
\* absent q and an empty q both read back as the empty question.
PostPack(packParam) == IF packParam = "" THEN Nil ELSE packParam
PostK(kParam) ==
  IF kParam.kind = "num" THEN kParam ELSE [kind |-> "absent", n |-> 0]
QueryPack(method, packParam) ==
  IF method = "POST" THEN PostPack(packParam) ELSE packParam
QueryK(method, kParam) == IF method = "POST" THEN PostK(kParam) ELSE kParam

\* GET of the orchestrator up to its first await on the network
\* (validation, loadPack, the embeddings check, issuing the embedQuery fetch).
OrchStart(r, method, q, packParam, kParam) ==
  LET userQ == Trim(q)
      packQ == QueryPack(method, packParam)
      packId == IF packQ = Nil THEN DefaultPack ELSE packQ
      k == ClampK(NumberOfK(QueryK(method, kParam)))
      r0 == [req[r] EXCEPT !.ep = "orch", !.q = q,
                           !.userQ = userQ, !.packId = packId, !.k = k]
      pack == IF Loaded(packId) THEN cache[packId] ELSE BuildPack(packId)
      emb == pack.embeddings
      \* loadPack reads chunks.jsonl, embeddings.json, qa.jsonl on a miss
      r1 == [r0 EXCEPT !.fileReads = IF Loaded(packId) THEN 0 ELSE 3]
  IN  /\ req[r].pc = "idle"
      /\ served < MaxRequests
      /\ served' = served + 1
      /\ UNCHANGED <<bodyBound, fn>>
      /\ IF ~bodyBound
           THEN Set(r, Threw(r0)) /\ UNCHANGED cache
         ELSE IF userQ = <<>>
           THEN Set(r, SseError(r0, 400, "Missing q")) /\ UNCHANGED cache
         ELSE IF ~Loaded(packId) /\ LoadThrows(packId)
           THEN /\ Set(r, SseError([r0 EXCEPT !.fileReads = 2], 500,
                                    "Unexpected token"))
                /\ UNCHANGED cache
         ELSE /\ cache' = IF Loaded(packId) THEN cache
                          ELSE (packId :> pack) @@ cache
              /\ IF Len(emb.ids) = 0 \/ Len(emb.vectors) = 0
                   THEN Set(r, SseError(r1, 500, "Pack has no embeddings.json"))
                   ELSE Set(r, [r1 EXCEPT !.pc = "awaitEmbed",
                                          !.calls = Append(@, "embedQuery")])

\* Variant: a failed query embedding falls back to asking the model without
\* sources.
EmbedFailedFallsBack(rec) ==
  [Failed(rec, "embedQuery") EXCEPT !.pc = "awaitCompletion", !.path = "rag",
                                    !.calls = Append(@, "completion")]

\* embedQuery throws; the handler's catch answers with one error frame.
EmbedFailed(rec) ==
  SseError(Failed(rec, "embedQuery"), 500, "embed query failed")

\* embedQuery's fetch settles.  A success continues into ensureQaEmbeddings
\* up to its first embedTexts fetch (or to its return).
EmbedQueryReturn(r) ==
  LET rec == req[r]
      pack == PackOf(r)
  IN  /\ rec.pc = "awaitEmbed"
      /\ UNCHANGED <<bodyBound, served, fn>>
      /\ \/ /\ Set(r, EmbedFailed(rec))
            /\ UNCHANGED cache
         \/ \E qv \in QueryVectors(pack) :
              LET r1 == [rec EXCEPT !.qVec = qv]
              IN  IF pack.qaEmbedModel = EMBED_MODEL
                    THEN Set(r, [r1 EXCEPT !.pc = "decide"]) /\ UNCHANGED cache
                  ELSE IF Len(pack.qa) = 0
                    THEN /\ cache' = [cache EXCEPT
                                        ![rec.packId].qaEmbeds = <<>>,
                                        ![rec.packId].qaEmbedModel = EMBED_MODEL]
                         /\ Set(r, [r1 EXCEPT !.pc = "decide"])
                  ELSE /\ Set(r, [r1 EXCEPT !.pc = "awaitQaEmbed", !.qaI = 0,
                                            !.qaOut = <<>>,
                                            !.calls = Append(@, "embedQa")])
                       /\ UNCHANGED cache

\* Variant: a batch is one question short.
QaBatchShort(qs, i) == Slice(qs, i, i + QA_BATCH - 1)

\* qs.slice(i, i + 64), kept as the entries whose questions they are
QaBatch(qs, i) == Slice(qs, i, i + QA_BATCH)

\* One embedTexts batch of ensureQaEmbeddings settles.
QaEmbedReturn(r) ==
  LET rec == req[r]
      pack == PackOf(r)
      qs == pack.qa
      batch == QaBatch(qs, rec.qaI)
      out == rec.qaOut \o [i \in 1..Len(batch) |-> QuestionVec(batch[i].q)]
      next == rec.qaI + QA_BATCH
  IN  /\ rec.pc = "awaitQaEmbed"
      /\ UNCHANGED <<bodyBound, served, fn>>
      /\ \/ /\ Set(r, SseError(Failed(rec, "embedQa"), 500,
                                 "Embeddings failed"))
            /\ UNCHANGED cache
         \/ IF next < Len(qs)
              THEN /\ Set(r, [rec EXCEPT !.qaI = next, !.qaOut = out,
                                         !.calls = Append(@, "embedQa")])
                   /\ UNCHANGED cache
              ELSE /\ cache' = [cache EXCEPT
                                  ![rec.packId].qaEmbeds = out,
                                  ![rec.packId].qaEmbedModel = EMBED_MODEL]
                   /\ Set(r, [rec EXCEPT !.pc = "decide", !.qaI = next,
                                         !.qaOut = out])

\* Variant: the boundary is exclusive.
ShortCircuitsAbove(qaHit) == qaHit.hit /\ qaHit.score > QA_THRESHOLD

\* The Q&A short-circuit test.
ShortCircuits(qaHit) == qaHit.hit /\ qaHit.score >= QA_THRESHOLD

\* bestQaMatch and the short-circuit, or retrieval, the prompt and the
\* completion fetch.
Decide(r) ==
  LET rec == req[r]
      pack == PackOf(r)
      qaHit == bestQaMatch(rec.qVec, pack.qaEmbeds)
      qa == pack.qa[qaHit.index]
      top == topKByEmbedding(rec.qVec, pack.embeddings.ids,
                             pack.embeddings.vectors, rec.k)
      topChunks == TopChunks(pack, top, rec.k)
  IN  /\ rec.pc = "decide"
      /\ UNCHANGED <<cache, bodyBound, served, fn>>
      /\ IF ShortCircuits(qaHit)
           THEN Set(r, [rec EXCEPT
                          !.pc = "done", !.path = "qa", !.qaHit = qaHit,
                          !.resp = "stream", !.status = 200,
                          !.frames = <<ChunkFrame(QaAnswer(qa, qaHit.score)),
                                       DoneFrame(QaSources(qa, qaHit.score))>>,
                          !.stream = "closed"])
           ELSE Set(r, [rec EXCEPT
                          !.pc = "awaitCompletion", !.path = "rag",
                          !.qaHit = qaHit, !.top = top,
                          !.topChunks = topChunks,
                          !.prompt = buildPrompt(rec.userQ, topChunks),
                          !.calls = Append(@, "completion")])

\* Variant: a failed completion call is issued once more.
CompletionRetried(rec, message) ==
  IF Len(rec.calls) < 4
    THEN [rec EXCEPT !.calls = Append(@, "completion")]
    ELSE SseError(Failed(rec, "completion"), 500, message)

\* The completion fetch rejected, or answered without success or body.
CompletionFailed(rec, message) ==
  SseError(Failed(rec, "completion"), 500, message)

\* Statuses of a completion response the relay is not built on: 429 and 500
\* are not ok; 200 stands for an ok response that has no body.
UpstreamStatuses == {200, 429, 500}

\* Variant: the message does not say which status the upstream answered.
LlmErrorPlain(status) == "LLM error"

\* `LLM error: ${r.status} ${errText}` with an empty errText.
LlmError(status) ==
  CASE status = 200 -> "LLM error: 200 "
    [] status = 429 -> "LLM error: 429 "
    [] status = 500 -> "LLM error: 500 "
    [] OTHER -> "LLM error: "

\* The completion fetch settles: it rejects, answers without success, or
\* answers with a body the relay stream is built on.
CompletionReturn(r) ==
  LET rec == req[r]
  IN  /\ rec.pc = "awaitCompletion"
      /\ UNCHANGED <<cache, bodyBound, served, fn>>
      /\ \/ Set(r, CompletionFailed(rec, "fetch failed"))
         \/ \E st \in UpstreamStatuses :
              Set(r, CompletionFailed([rec EXCEPT !.upStatus = st],
                                      LlmError(st)))
         \/ Set(r, [rec EXCEPT !.pc = "relay", !.resp = "stream",
                               !.status = 200, !.stream = "readable",
                               !.upstream = "open"])

\* The runtime calls pull: reader.read() is issued.
PullStart(r) ==
  LET rec == req[r]
  IN  /\ rec.pc = "relay" /\ rec.stream = "readable" /\ ~rec.pulling
      /\ UNCHANGED <<cache, bodyBound, served, fn>>
      /\ Set(r, [rec EXCEPT !.pulling = TRUE, !.readsIssued = @ + 1])

\* reader.read() settles and pull runs to its end.
PullResume(r) ==
  LET rec == req[r]
  IN  /\ rec.pc = "relay" /\ rec.pulling
      /\ UNCHANGED <<cache, bodyBound, served, fn>>
      /\ IF rec.stream = "cancelled"
           \* the cancelled reader reports done; enqueue on the cancelled
           \* stream throws, and the runtime drops pull's rejection
           THEN Set(r, [rec EXCEPT !.pulling = FALSE])
           ELSE \/ \E lines \in UpstreamReads :
                     /\ rec.reads < MaxReads
                     /\ Set(r, [rec EXCEPT
                                  !.pulling = FALSE, !.reads = @ + 1,
                                  !.upLines = @ \o lines,
                                  !.frames = @ \o ProcessRead(lines)])
                \/ Set(r, [rec EXCEPT
                             !.pulling = FALSE, !.upstream = "eof",
                             !.frames = Append(@, DoneFrame(RelaySources(rec.top))),
                             !.stream = "closed"])
                \/ Set(r, [Failed(rec, "read") EXCEPT
                             !.pulling = FALSE, !.upstream = "failed",
                             !.stream = "errored"])

\* Variant: cancel() leaves the upstream reader alone.
ClientCancelOnly(r) ==
  LET rec == req[r]
  IN  /\ rec.pc = "relay" /\ rec.stream = "readable"
      /\ UNCHANGED <<cache, bodyBound, served, fn>>
      /\ Set(r, [rec EXCEPT !.stream = "cancelled"])

\* The client cancels the response stream (or disconnects): cancel() runs
\* reader.cancel().
ClientCancel(r) ==
  LET rec == req[r]
  IN  /\ rec.pc = "relay" /\ rec.stream = "readable"
      /\ UNCHANGED <<cache, bodyBound, served, fn>>
      /\ Set(r, [rec EXCEPT !.stream = "cancelled", !.upstream = "cancelled"])

\* -------------------------------------------- simulated transport, GET/POST
\* NextResponse.json({error}, {status})
JsonError(rec, status, message) ==
  [rec EXCEPT !.pc = "done", !.resp = "json-error", !.status = status,
              !.frames = <<>>, !.answer = <<>>]

SimDoneFrame(sources, totalChunks) ==
  [type |-> "done", delta |-> <<>>, sources |-> sources, message |-> "",
   q |-> <<>>, totalChunks |-> totalChunks]

\* Answer strings: a pattern repeated to a length.
Patterns ==
  <<<<"a", "b", " ", "\n", "c">>, <<" ", " ", "x", "\n", "\n", "\n", "y">>>>
AnswerOf(n, p) ==
  [j \in 1..n |-> Patterns[p][((j - 1) % Len(Patterns[p])) + 1]]
Answers == {AnswerOf(n, p) : n \in 0..MaxAnsLen, p \in 1..Len(Patterns)}

\* What /api/ask answered, as fetchUpstream reads it: the answer (a string,
\* else "") and the array under `sources`, else under `top`, else [].
AskSourceLists == {<<>>, <<[id |-> "c1", page |-> "p.1"]>>}
AskBodies ==
  [answer : Answers, key : {"sources", "top", "none"}, list : AskSourceLists]
SourcesOfBody(body) == IF body.key = "none" THEN <<>> ELSE body.list

\* pump(): send the next chunk and re-arm the timer, or send done and close.
\* send() on a cancelled stream throws out of pump.
Pump(rec) ==
  IF rec.stream = "cancelled"
    THEN [rec EXCEPT !.timer = FALSE, !.uncaught = @ + 1, !.pc = "done"]
  ELSE IF rec.i < Len(rec.chunks)
    THEN [rec EXCEPT !.frames = Append(@, ChunkFrame(rec.chunks[rec.i + 1])),
                     !.i = @ + 1, !.timer = TRUE]
  ELSE [rec EXCEPT !.frames = Append(@, SimDoneFrame(rec.sources,
                                                      Len(rec.chunks))),
                   !.timer = FALSE, !.stream = "closed", !.pc = "done"]

\* sseResponse(q, answer, sources): start() sends meta and runs pump once.
sseResponse(rec, q, answer, sources) ==
  Pump([rec EXCEPT !.pc = "simPump", !.resp = "stream", !.status = 200,
                   !.stream = "readable", !.frames = <<MetaFrame(q)>>,
                   !.answer = answer, !.sources = sources,
                   !.chunks = chunkByChars(answer, CHUNK_SIZE), !.i = 0])

\* GET and POST of the simulated transport up to the fetch of /api/ask.  A
\* POST body that is no object, or whose q is no string, gives q = "".
SimStart(r, method, q, hasHost) ==
  LET r0 == [req[r] EXCEPT !.ep = "sim", !.q = q]
  IN  /\ req[r].pc = "idle"
      /\ served < MaxRequests
      /\ served' = served + 1
      /\ UNCHANGED <<cache, bodyBound, fn>>
      /\ IF Trim(q) = <<>>
           THEN Set(r, JsonError(r0, 400, "Missing q"))
         ELSE IF ~hasHost
           THEN Set(r, JsonError(r0, 500, "No host"))
         ELSE Set(r, [r0 EXCEPT !.pc = "awaitAsk",
                                !.calls = Append(@, "askFetch")])

\* The fetch of /api/ask settles.
AskFetchReturn(r) ==
  LET rec == req[r]
  IN  /\ rec.pc = "awaitAsk"
      /\ UNCHANGED <<cache, bodyBound, served, fn>>
      /\ \/ Set(r, JsonError(rec, 500, "upstream_failed"))
         \/ \E body \in AskBodies :
              Set(r, sseResponse(rec, rec.q, body.answer, SourcesOfBody(body)))

\* The 15 ms timer fires.
PumpTick(r) ==
  /\ req[r].ep = "sim" /\ req[r].timer
  /\ UNCHANGED <<cache, bodyBound, served, fn>>
  /\ Set(r, Pump(req[r]))

\* The client cancels the simulated stream; the source has no cancel().
SimCancel(r) ==
  /\ req[r].pc = "simPump" /\ req[r].stream = "readable"
  /\ UNCHANGED <<cache, bodyBound, served, fn>>
  /\ Set(r, [req[r] EXCEPT !.stream = "cancelled"])

\* ------------------------------------------------------- /api/ask, POST
\* The legacy single pack under public/pack, loaded with the module.
AskIds == <<"c1", "c2", "c3">>
AskScores == [1..Len(AskIds) -> ChunkScores]

\* body.k when it is a finite number, else 5.
AskKParams == {[kind |-> "absent", n |-> 0], [kind |-> "num", n |-> 2]}
AskK(p) == IF p.kind = "num" THEN p.n ELSE K_DEFAULT

\* sims.map((s, i) => [s, i]).sort(desc).slice(0, k), as ids with scores.
AskTop(sims, k) ==
  Slice(SortByScore([i \in 1..Len(AskIds) |->
                        [id |-> AskIds[i], score |-> sims[i], index |-> i - 1]],
                    <<>>), 0, k)

\* POST /api/ask up to the embeddings call.  q is body.q when that is a
\* string, else "".
AskStart(r, q, kParam) ==
  LET r0 == [req[r] EXCEPT !.ep = "ask", !.q = q, !.k = Num(AskK(kParam))]
  IN  /\ req[r].pc = "idle"
      /\ served < MaxRequests
      /\ served' = served + 1
      /\ UNCHANGED <<cache, bodyBound, fn>>
      /\ IF q = <<>>
           THEN Set(r, JsonError(r0, 400, "missing q"))
           ELSE Set(r, [r0 EXCEPT !.pc = "askEmbed",
                                  !.calls = Append(@, "embeddings.create")])

\* embeddings.create settles; ranking, the prompt and the chat call follow.
AskEmbedReturn(r) ==
  LET rec == req[r]
  IN  /\ rec.pc = "askEmbed"
      /\ UNCHANGED <<cache, bodyBound, served, fn>>
      /\ \/ Set(r, JsonError(rec, 500, "server_error"))
         \/ \E sims \in AskScores :
              Set(r, [rec EXCEPT !.pc = "askChat",
                                 !.top = AskTop(sims, rec.k.n),
                                 !.calls = Append(@, "chat.completions.create")])

\* chat.completions.create settles; the JSON answer is returned.
AskChatReturn(r) ==
  LET rec == req[r]
  IN  /\ rec.pc = "askChat"
      /\ UNCHANGED <<cache, bodyBound, served, fn>>
      /\ \/ Set(r, JsonError(rec, 500, "server_error"))
         \/ \E n \in {0, 3} :
              Set(r, [rec EXCEPT !.pc = "done", !.resp = "json",
                                 !.status = 200, !.answer = AnswerOf(n, 1),
                                 !.sources = rec.top])

\* The response is over and nothing of the request is still scheduled.
Finished(rec) ==
  \/ rec.pc = "done" /\ ~rec.timer
  \/ rec.pc = "relay" /\ rec.stream # "readable" /\ ~rec.pulling

\* The request's objects are discarded; the slot takes the next request.
Recycle(r) ==
  /\ Finished(req[r])
  /\ served < MaxRequests
  /\ Set(r, Idle)
  /\ UNCHANGED <<cache, bodyBound, served, fn>>

Methods == {"GET", "POST"}

Next ==
  \E r \in Slots :
    \/ \E m \in Methods, q \in Questions, p \in PackParams, k \in KParams :
         OrchStart(r, m, q, p, k)
    \/ EmbedQueryReturn(r)
    \/ QaEmbedReturn(r)
    \/ Decide(r)
    \/ CompletionReturn(r)
    \/ PullStart(r)
    \/ PullResume(r)
    \/ ClientCancel(r)
    \/ \E m \in Methods, q \in Questions, h \in BOOLEAN : SimStart(r, m, q, h)
    \/ AskFetchReturn(r)
    \/ PumpTick(r)
    \/ SimCancel(r)
    \/ \E q \in Questions, k \in AskKParams : AskStart(r, q, k)
    \/ AskEmbedReturn(r)
    \/ AskChatReturn(r)
    \/ Recycle(r)

Spec == Init /\ [][Next]_vars

\* ----------------------------------------------- pure functions, on their own
\* topKByEmbedding applied to every input within the bounds: up to MaxRows
\* ids and up to MaxRows vector rows (the two lengths independent), every
\* query vector over FnScores, every count k up to MaxK and k = NaN.
FnIds == <<"a", "b", "c", "d", "e">>
FnScores == {7000, 8000, 9000}
FnRows(n) == [i \in 1..n |-> ChunkVec(FnIds[i])]
TopKCalls ==
  {[op |-> "topK", userVec |-> v, ids |-> SubSeq(FnIds, 1, ni),
    vectors |-> FnRows(nv), k |-> k, returned |-> FALSE, out |-> <<>>] :
     v \in [Range(FnRows(MaxRows)) -> FnScores], ni \in 0..MaxRows,
     nv \in 0..MaxRows, k \in {Num(c) : c \in 0..MaxK} \cup {NaN}}

\* bestQaMatch applied to up to MaxRows Q&A vectors, each similarity one of
\* -1, 0, 0.88 and 1.
BestScores == {SCORE_INIT, 0, QA_THRESHOLD, 10000}
BestCalls ==
  {[op |-> "bestQa", userVec |-> v, ids |-> <<>>, vectors |-> FnRows(nv),
    k |-> Num(0), returned |-> FALSE, out |-> <<>>] :
     v \in [Range(FnRows(MaxRows)) -> BestScores], nv \in 0..MaxRows}

\* The relay's pull applied to an upstream text cut into reads.  The text is
\* a sequence of tokens: "data:", the JSON of a delta as "{" d "}", "[DONE]"
\* and the newline; a read is any run of tokens between two cuts.
Newline == "\n"
WireFrame(d) == <<"data:", "{", d, "}", Newline, Newline>>
WireDone == <<"data:", "[DONE]", Newline, Newline>>
RECURSIVE Wire(_)
Wire(ds) == IF ds = <<>> THEN WireDone ELSE WireFrame(Head(ds)) \o Wire(Tail(ds))

\* chunk.split(/\r?\n/)
RECURSIVE SplitLines(_, _)
SplitLines(chunk, line) ==
  IF chunk = <<>> THEN <<line>>
  ELSE IF Head(chunk) = Newline
       THEN <<line>> \o SplitLines(Tail(chunk), <<>>)
       ELSE SplitLines(Tail(chunk), Append(line, Head(chunk)))

\* line.startsWith("data:"), line.slice(5).trim(), JSON.parse and
\* choices[0].delta.content of one line.
ParseLine(line) ==
  IF line = <<>> \/ Head(line) # "data:" THEN Blank
  ELSE LET payload == Tail(line)
       IN  IF payload = <<"[DONE]">> THEN DoneMark
           ELSE IF Len(payload) = 3 /\ payload[1] = "{" /\ payload[3] = "}"
                     /\ payload[2] \notin {"{", "}", "data:", "[DONE]"}
                  THEN Content(<<payload[2]>>)
                  ELSE BadJson
LinesOf(chunk) ==
  LET ls == SplitLines(chunk, <<>>)
  IN  [j \in 1..Len(ls) |-> ParseLine(ls[j])]

\* The reads a set of cut positions makes of a text, in order.
RECURSIVE ReadsOf(_, _, _)
ReadsOf(text, cuts, from) ==
  LET later == {c \in cuts : c >= from}
  IN  IF later = {} THEN <<SubSeq(text, from, Len(text))>>
      ELSE LET c == CHOOSE x \in later : \A y \in later : x <= y
           IN  <<SubSeq(text, from, c)>> \o ReadsOf(text, cuts, c + 1)

\* pull run once per read, the frames enqueued one after the other.
RECURSIVE RelayReads(_)
RelayReads(reads) ==
  IF reads = <<>> THEN <<>>
  ELSE ProcessRead(LinesOf(Head(reads))) \o RelayReads(Tail(reads))

RelayDeltas == {<<"a">>, <<"a", "b">>, <<"b", "a">>}
CutSets(n) == {cs \in SUBSET (1..(n - 1)) : Cardinality(cs) <= MaxCuts}
RelayCall(ds, cs) ==
  [op |-> "relay", userVec |-> <<>>, ids |-> ds, vectors |-> <<>>,
   k |-> Num(0), returned |-> FALSE, out |-> <<>>, cuts |-> cs]
RelayCalls ==
  UNION {{RelayCall(ds, cs) : cs \in CutSets(Len(Wire(ds)))} :
           ds \in RelayDeltas}

InitFn ==
  /\ cache = <<>>
  /\ bodyBound = TRUE
  /\ served = 0
  /\ req = [r \in Slots |-> Idle]
  /\ fn \in TopKCalls \cup BestCalls \cup RelayCalls

CallTopK ==
  /\ fn.op = "topK" /\ ~fn.returned
  /\ fn' = [fn EXCEPT !.returned = TRUE,
                      !.out = topKByEmbedding(fn.userVec, fn.ids,
                                              fn.vectors, fn.k)]
  /\ UNCHANGED <<cache, bodyBound, served, req>>

CallBestQa ==
  /\ fn.op = "bestQa" /\ ~fn.returned
  /\ fn' = [fn EXCEPT !.returned = TRUE,
                      !.out = bestQaMatch(fn.userVec, fn.vectors)]
  /\ UNCHANGED <<cache, bodyBound, served, req>>

CallRelay ==
  /\ fn.op = "relay" /\ ~fn.returned
  /\ fn' = [fn EXCEPT !.returned = TRUE,
                      !.out = RelayReads(ReadsOf(Wire(fn.ids), fn.cuts, 1))]
  /\ UNCHANGED <<cache, bodyBound, served, req>>

NextFn == CallTopK \/ CallBestQa \/ CallRelay

SpecFn == InitFn /\ [][NextFn]_vars

\* ------------------------------------------------------------ the page
\* The page of the client (src/app/page.tsx) and the middleware in front of
\* the streaming endpoint.  The page's state is held in fn: pack, loading,
\* error, the result's answer (a sequence of text tokens) and sources, esRef
\* (es, 0 for null) and every EventSource the page has created (conns).

\* id.trim().toLowerCase() on the ids the model enters.
LowerTrim(id) ==
  CASE id = " Hopkins " -> "hopkins"
    [] id = "SCIENTIFIC" -> "scientific"
    [] id = "Optimal-Poker" -> "optimal-poker"
    [] id = Nil -> ""
    [] OTHER -> id

\* normalizePackId of the page
pageNormalizePackId(id) ==
  LET raw == LowerTrim(id)
  IN  IF raw = "" THEN "scientific-advertising"
      ELSE IF raw \in {"hopkins-scientific-advertising", "hopkins",
                       "scientific", "scientific_advertising"}
        THEN "scientific-advertising"
      ELSE raw

\* normalizePackId of the middleware; Nil is null.
normalizePackId(id) ==
  LET raw == LowerTrim(id)
  IN  IF id = Nil \/ id = "" THEN Nil
      ELSE IF raw \in {"hopkins-scientific-advertising", "hopkins",
                       "scientific", "scientific_advertising",
                       "scientificadvertising"}
        THEN "scientific-advertising"
      ELSE raw

apiPackId(id) ==
  IF id = "scientific-advertising" THEN "hopkins-scientific-advertising"
  ELSE id

\* The pack parameter the streaming handler reads after the middleware: the
\* rewritten one when normalizePackId gives an id other than the current.
middleware(current) ==
  LET normalized == normalizePackId(current)
  IN  IF normalized # Nil /\ normalized # current THEN normalized ELSE current

\* What the address bar or localStorage can hold as pack when the page
\* mounts, and what /api/pack/list offers the picker.
RawPacks ==
  {Nil, "scientific-advertising", "optimal-poker", " Hopkins ", "SCIENTIFIC",
   "hopkins-scientific-advertising", "scientific_advertising",
   "scientificadvertising", "Optimal-Poker", "my-pack"}
ListedPacks == {"scientific-advertising", "optimal-poker"}

\* The data of one message event.
RefToken == "[#1 id=c1]"
PageFrame(kind, delta, sources) ==
  [kind |-> kind, delta |-> delta, sources |-> sources]
PageFrames ==
  {PageFrame("chunk", d, <<>>) : d \in {"a", RefToken, ""}}
    \cup {PageFrame("done", "", ss) : ss \in {<<>>, <<"c1">>}}
    \cup {PageFrame(kd, "", <<>>) :
            kd \in {"error", "empty", "notjson", "nonobject", "unknown"}}

\* s.replace(/\[\s*#\d+\s+id\s*=...\]/gi, '')
stripInlineRefs(answer) == SelectSeq(answer, LAMBDA t : t # RefToken)

PageOf(pack) ==
  [op |-> "page", pack |-> pack, loading |-> FALSE, error |-> "",
   answer |-> <<>>, sources |-> <<>>, hasResult |-> FALSE, es |-> 0,
   conns |-> <<>>, msgs |-> 0, last |-> PageFrame("none", "", <<>>),
   skipped |-> FALSE]

InitPage ==
  /\ cache = <<>>
  /\ bodyBound = TRUE
  /\ served = 0
  /\ req = [r \in Slots |-> Idle]
  /\ fn \in {PageOf(pageNormalizePackId(raw)) : raw \in RawPacks}

\* Variant: esRef is cleared without closing the connection it held.
DropCurrent(page) == [page EXCEPT !.es = 0]

\* if (esRef.current) { esRef.current.close(); esRef.current = null; }
CloseCurrent(page) ==
  IF page.es = 0 THEN page
  ELSE [page EXCEPT !.conns[page.es].open = FALSE, !.es = 0]

\* cancelStream
cancelStream(page) == [CloseCurrent(page) EXCEPT !.loading = FALSE]

\* clearAll
clearAll(page) ==
  [cancelStream(page) EXCEPT !.error = "", !.hasResult = FALSE,
                             !.answer = <<>>, !.sources = <<>>]

\* ask(query): close the previous EventSource, reset the result, open a new
\* EventSource on the streaming endpoint.
PageAsk(query) ==
  LET p0 == CloseCurrent(fn)
      conn == [open |-> TRUE, sent |-> apiPackId(fn.pack),
               pack |-> middleware(apiPackId(fn.pack)), uiPack |-> fn.pack]
  IN  /\ fn.op = "page"
      /\ Len(fn.conns) < MaxAsks
      /\ UNCHANGED <<cache, bodyBound, served, req>>
      /\ IF Trim(query) = <<>> THEN fn' = fn
         ELSE fn' = [p0 EXCEPT !.loading = TRUE, !.error = "",
                               !.hasResult = TRUE, !.answer = <<>>,
                               !.sources = <<>>,
                               !.conns = Append(@, conn),
                               !.es = Len(p0.conns) + 1,
                               !.msgs = 0, !.skipped = FALSE,
                               !.last = PageFrame("none", "", <<>>)]

\* Variant: a payload that does not parse is reported as a stream error and
\* ends the stream.
onmessageStrict(page, c, f) ==
  IF f.kind = "chunk"
    THEN [page EXCEPT !.hasResult = TRUE, !.answer = Append(@, f.delta)]
    ELSE [page EXCEPT !.conns[c].open = FALSE, !.es = 0, !.loading = FALSE,
                      !.error = "Stream error"]

\* es.onmessage of the connection c
onmessage(page, c, f) ==
  CASE f.kind = "chunk" ->
         [page EXCEPT !.hasResult = TRUE,
                      !.answer = IF f.delta = "" THEN @ ELSE Append(@, f.delta)]
    [] f.kind = "done" ->
         [page EXCEPT !.hasResult = TRUE, !.answer = stripInlineRefs(@),
                      !.sources = f.sources,
                      !.conns[c].open = FALSE, !.es = 0, !.loading = FALSE]
    [] f.kind = "error" -> [page EXCEPT !.error = "stream error"]
    [] OTHER -> page

\* A message event is dispatched on an EventSource that is not closed.
PageMessage ==
  /\ fn.op = "page"
  /\ fn.msgs < MaxMsgs
  /\ UNCHANGED <<cache, bodyBound, served, req>>
  /\ \E c \in 1..Len(fn.conns), f \in PageFrames :
       /\ fn.conns[c].open
       /\ fn' = [onmessage(fn, c, f) EXCEPT
                   !.msgs = @ + 1, !.last = f,
                   !.skipped = @ \/ f.kind \in {"empty", "notjson",
                                                "nonobject", "unknown"}]

\* es.onerror of an EventSource that is not closed
PageError ==
  /\ fn.op = "page"
  /\ UNCHANGED <<cache, bodyBound, served, req>>
  /\ \E c \in 1..Len(fn.conns) :
       /\ fn.conns[c].open
       /\ fn' = [fn EXCEPT !.conns[c].open = FALSE, !.es = 0,
                           !.loading = FALSE,
                           !.error = IF @ = "" THEN "Stream error" ELSE @]

\* Stop, or Escape while esRef holds a connection
PageCancel ==
  /\ fn.op = "page"
  /\ UNCHANGED <<cache, bodyBound, served, req>>
  /\ fn' = cancelStream(fn)

PageClear ==
  /\ fn.op = "page"
  /\ UNCHANGED <<cache, bodyBound, served, req>>
  /\ fn' = clearAll(fn)

\* The picker's onChange: setPack(p); clearAll()
PagePick ==
  /\ fn.op = "page"
  /\ UNCHANGED <<cache, bodyBound, served, req>>
  /\ \E p \in ListedPacks : fn' = [clearAll(fn) EXCEPT !.pack = p]

NextPage ==
  \/ \E query \in {<<" ">>, <<"w", "h", "y">>} : PageAsk(query)
  \/ PageMessage
  \/ PageError
  \/ PageCancel
  \/ PageClear
  \/ PagePick

SpecPage == InitPage /\ [][NextPage]_vars

\* ------------------------------------------------------- the mirror cron
\* GET /api/cron/mirror: drain b2ai:recent, insert into the query log, bump
\* the counters.  fn holds the list (head first), the log, and what the run
\* popped.  An entry is a record ("v1", "v2"), text that is no record
\* ("bad"), or the empty string.
QueueEntries == {"v1", "v2", "bad", ""}

\* parseRecentRec: the record, or Nil for null
parseRecentRec(raw) == IF raw \in {"v1", "v2"} THEN raw ELSE Nil

\* drainRecent(max) on the list: up to max lpop, stopping at a falsy value;
\* what parses is kept, the rest is dropped.
RECURSIVE drainRecent(_, _, _)
drainRecent(list, max, out) ==
  IF max = 0 \/ list = <<>> THEN [recs |-> out, list |-> list]
  ELSE IF Head(list) = "" THEN [recs |-> out, list |-> Tail(list)]
  ELSE IF parseRecentRec(Head(list)) = Nil
         THEN drainRecent(Tail(list), max - 1, out)
         ELSE drainRecent(Tail(list), max - 1,
                          Append(out, parseRecentRec(Head(list))))

\* putBack: lpush of recs[i] for i from the last index down to the first
RECURSIVE putBack(_, _)
putBack(list, recs) ==
  IF recs = <<>> THEN list
  ELSE putBack(<<recs[Len(recs)]>> \o list, SubSeq(recs, 1, Len(recs) - 1))

InitMirror ==
  /\ cache = <<>>
  /\ bodyBound = TRUE
  /\ served = 0
  /\ req = [r \in Slots |-> Idle]
  /\ \E n \in 0..MaxQueue : \E list \in [1..n -> QueueEntries] :
       fn = [op |-> "mirror", list |-> list, before |-> list, log |-> <<>>,
             recs |-> <<>>, dry |-> FALSE, ran |-> FALSE, outcome |-> "none"]

\* One authorised run.  fail is the step of the run that fails, if any:
\* getSupabaseAdmin throws ("client"), the insert returns an error
\* ("insertError") or throws ("insertThrow"), an increment fails ("counter").
MirrorGet(dry, batch, fail) ==
  LET d == drainRecent(fn.list, batch, <<>>)
      m0 == [fn EXCEPT !.ran = TRUE, !.dry = dry, !.recs = d.recs,
                       !.list = d.list]
  IN  /\ fn.op = "mirror" /\ ~fn.ran
      /\ UNCHANGED <<cache, bodyBound, served, req>>
      /\ fn' =
           IF dry
             THEN [m0 EXCEPT !.list = putBack(d.list, d.recs),
                             !.outcome = "dry"]
           ELSE IF d.recs = <<>> THEN [m0 EXCEPT !.outcome = "none-drained"]
           ELSE IF fail = "client" \/ fail = "insertThrow"
             THEN [m0 EXCEPT !.outcome = "threw"]
           ELSE IF fail = "insertError"
             THEN [m0 EXCEPT !.list = putBack(d.list, d.recs),
                             !.outcome = "log_insert"]
           ELSE IF fail = "counter"
             THEN [m0 EXCEPT !.log = @ \o d.recs, !.outcome = "threw"]
           ELSE [m0 EXCEPT !.log = @ \o d.recs, !.outcome = "ok"]

NextMirror ==
  \E dry \in BOOLEAN, batch \in {2, BATCH_DEFAULT},
     fail \in {"none", "client", "insertError", "insertThrow", "counter"} :
    MirrorGet(dry, batch, fail)

SpecMirror == InitMirror /\ [][NextMirror]_vars

\* ------------------------------------------------- two requests in flight
\* Two requests of the orchestrator run concurrently, interleaved at their
\* awaits, from validation up to the Q&A decision.
ConcSlots == {1, 2}
ConcPacks == {"scientific-advertising", "optimal-poker", "many-qa"}

InitConc ==
  /\ cache = <<>>
  /\ bodyBound = TRUE
  /\ served = 0
  /\ req = [r \in ConcSlots |-> Idle]
  /\ fn = NoFn

ConcStart(r) ==
  \E p \in ConcPacks :
    OrchStart(r, "GET", <<"w", "h", "y">>, p, [kind |-> "absent", n |-> 0])

NextConc ==
  \E r \in ConcSlots :
    \/ ConcStart(r)
    \/ EmbedQueryReturn(r)
    \/ QaEmbedReturn(r)

SpecConc == InitConc /\ [][NextConc]_vars

\* ============================================================ properties
Last(s) == s[Len(s)]
TerminalCount(fs) == Cardinality({j \in 1..Len(fs) : IsTerminal(fs[j])})
\* exactly one terminal frame, and it is the last frame
EndsWithOneTerminal(fs) ==
  fs # <<>> /\ IsTerminal(Last(fs)) /\ TerminalCount(fs) = 1
ChunkDeltas(fs) ==
  LET cs == SelectSeq(fs, LAMBDA f : f.type = "chunk")
  IN  [j \in 1..Len(cs) |-> cs[j].delta]
IdsOf(s) == [j \in 1..Len(s) |-> s[j].id]
\* a stream the server opened has ended, and not by the client leaving
StreamOver(rec) ==
  rec.resp = "stream" /\ Finished(rec) /\ rec.stream # "cancelled"

C2_ChunksRebuildAnswer ==
  \A r \in Slots :
    LET rec == req[r]
        ds == ChunkDeltas(rec.frames)
        whole == Concat(ds)
    IN  rec.ep = "sim" /\ rec.resp = "stream" =>
          /\ \A j \in 1..Len(ds) : Len(ds[j]) >= 1 /\ Len(ds[j]) <= 48
          /\ Len(whole) <= Len(rec.answer)
          /\ whole = SubSeq(rec.answer, 1, Len(whole))
          /\ rec.stream = "closed" =>
               /\ whole = rec.answer
               /\ Len(rec.frames) = Len(ds) + 2
               /\ rec.frames[1].type = "meta"
               /\ Last(rec.frames).type = "done"
               /\ TerminalCount(rec.frames) = 1
C2_Witness ==
  \E r \in Slots :
    /\ req[r].ep = "sim" /\ req[r].stream = "closed"
    /\ req[r].answer = AnswerOf(97, 2)
    /\ Len(ChunkDeltas(req[r].frames)) = 3

\* C3: a request takes the Q&A short-circuit if and only if some Q&A entry of
\* its pack scores at least 0.88 against the query (so never for a pack
\* without Q&A entries); otherwise it goes on to chunk retrieval.
HasQaAtLeast(rec, pack, bound) ==
  \E j \in 1..Len(pack.qa) :
    cosine(rec.qVec, QuestionVec(pack.qa[j].q)) >= bound
ScoreOfRow(rec, pack, j) == cosine(rec.qVec, pack.embeddings.vectors[j])
C4_DoneSourcesAreTopK ==
  \A r \in Slots :
    LET rec == req[r]
        pack == cache[rec.packId]
        ids == pack.embeddings.ids
        src == Last(rec.frames).sources
        Row(j) == CHOOSE m \in 1..Len(ids) : ids[m] = src[j].id
    IN  /\ rec.path = "rag" /\ rec.stream = "closed" /\ ~rec.k.nan
        /\ \A j \in 1..Len(rec.top) : HasChunk(pack, rec.top[j].id)
        => /\ Last(rec.frames).type = "done"
           /\ Len(src) = Min(rec.k.n, Len(ids))
           /\ \A j \in 1..Len(src) :
                /\ \E m \in 1..Len(ids) : ids[m] = src[j].id
                /\ src[j].score = ScoreOfRow(rec, pack, Row(j))
           /\ \A j, m \in 1..Len(src) :
                j < m => src[j].id # src[m].id /\ src[j].score >= src[m].score
           /\ \A m \in 1..Len(ids) :
                (\A j \in 1..Len(src) : src[j].id # ids[m])
                  => \A j \in 1..Len(src) :
                       src[j].score >= ScoreOfRow(rec, pack, m)
C4_Witness ==
  \E r \in Slots :
    /\ req[r].path = "rag" /\ req[r].stream = "closed"
    /\ req[r].packId = "scientific-advertising"
    /\ IdsOf(Last(req[r].frames).sources) = <<"c2", "c4", "c1">>

C6_CancelStopsRelay ==
  [][\A r \in Slots :
       req[r].pc = "relay" /\ req'[r].pc = "relay" =>
         /\ req[r].stream = "readable" /\ req'[r].stream = "cancelled"
              => req'[r].upstream = "cancelled"
         /\ req[r].stream = "cancelled" =>
              /\ req'[r].stream = "cancelled"
              /\ req'[r].upstream = "cancelled"
              /\ req'[r].readsIssued = req[r].readsIssued
              /\ req'[r].reads = req[r].reads
              /\ req'[r].frames = req[r].frames]_vars
C6_Witness ==
  \E r \in Slots :
    /\ req[r].pc = "relay" /\ req[r].stream = "cancelled"
    /\ ~req[r].pulling /\ req[r].readsIssued > req[r].reads
    /\ req[r].frames # <<>>

ParsedDeltas(lines) ==
  LET ok == SelectSeq(lines, LAMBDA l : l.data /\ l.payload = "json"
                                        /\ l.delta # <<>>)
  IN  [j \in 1..Len(ok) |-> ok[j].delta]
C9_BlankQuestionNoCall ==
  \A r \in Slots :
    req[r].pc # "idle" /\ Trim(req[r].q) = <<>> =>
      /\ req[r].calls = <<>>
      /\ req[r].pc = "done"
      /\ req[r].resp \in {"sse-error", "json-error", "threw"}

\* C10: a request of the orchestrator for a pack whose embeddings file is
\* missing or holds no ids or no vectors has ended with one error frame and
\* no network call, loadPack having cached a pack with an empty embedding
\* set; and every cached pack still is what its own files make it.
EmbeddingsAbsentOrEmpty(packId) ==
  LET f == EmbeddingsFileOf(packId)
  IN  \/ f.state = "missing"
      \/ f.state = "ok" /\ (f.data.ids = <<>> \/ f.data.vectors = <<>>)
CountOf(s, x) == Cardinality({j \in 1..Len(s) : s[j] = x})

\* C11: a request whose query-embedding call failed has ended with one error
\* frame as its whole response; the query embedding is the only network
\* call it made (no Q&A embedding, no completion), and it sent no chunk and
\* no done frame.
C11_EmbedFailureIsTerminal ==
  \A r \in Slots :
    LET rec == req[r]
    IN  "embedQuery" \in Range(rec.failed) =>
          /\ rec.pc = "done" /\ rec.resp = "sse-error" /\ rec.status = 500
          /\ rec.calls = <<"embedQuery">>
          /\ Len(rec.frames) = 1 /\ rec.frames[1].type = "error"
          /\ rec.path = "none" /\ rec.top = <<>>
C11_Witness ==
  \E r \in Slots :
    /\ req[r].failed = <<"embedQuery">>
    /\ req[r].pc = "done"
    /\ req[r].frames # <<>>

\* C18: a request of the orchestrator issues at most one query-embedding
\* call, at most one completion call and each Q&A batch at most once; at
\* most one call fails, and the failed call is the last call the request
\* issued: it has ended with an error response (or, for a failed read of the
\* completion body, with the stream errored).
C18_NoRetry ==
  \A r \in Slots :
    LET rec == req[r]
    IN  rec.ep = "orch" =>
          /\ CountOf(rec.calls, "embedQuery") <= 1
          /\ CountOf(rec.calls, "completion") <= 1
          /\ rec.pc # "idle" /\ Loaded(rec.packId) =>
               CountOf(rec.calls, "embedQa")
                 <= (Len(cache[rec.packId].qa) + 63) \div 64
          /\ Len(rec.failed) <= 1
          /\ rec.failed # <<>> /\ rec.failed # <<"read">> =>
               /\ rec.pc = "done" /\ rec.resp = "sse-error"
               /\ Last(rec.calls) = rec.failed[1]
          /\ rec.failed = <<"read">> =>
               /\ rec.stream = "errored" /\ ~rec.pulling
               /\ Last(rec.calls) = "completion"
C18_Witness ==
  \E r \in Slots :
    /\ req[r].failed = <<"completion">>
    /\ req[r].pc = "done"
    /\ req[r].calls = <<"embedQuery", "embedQa", "completion">>

\* C12: for ids and vectors of equal length n and a count k, the list topK
\* returns has non-increasing scores and at most min(k, n) entries (none for
\* k = NaN), and every entry is a row of the input: its id is the id at its
\* index and its score the score of the vector at that index, no row twice.
C12_TopKSortedBounded ==
  fn.op = "topK" /\ fn.returned /\ Len(fn.ids) = Len(fn.vectors) =>
    LET out == fn.out
        n == Len(fn.ids)
    IN  /\ \A j, m \in 1..Len(out) :
             j < m => out[j].score >= out[m].score /\ out[j].index # out[m].index
        /\ Len(out) <= n
        /\ fn.k.nan => out = <<>>
        /\ ~fn.k.nan => Len(out) <= fn.k.n
        /\ \A j \in 1..Len(out) :
             /\ out[j].index \in 0..(n - 1)
             /\ out[j].id = fn.ids[out[j].index + 1]
             /\ out[j].score = fn.userVec[fn.vectors[out[j].index + 1]]
C12_Witness ==
  /\ fn.op = "topK" /\ fn.returned
  /\ Len(fn.ids) = 3 /\ Len(fn.vectors) = 3 /\ fn.k = Num(5)
  /\ IdsOf(fn.out) = <<"c", "a", "b">>
  /\ fn.out[1].score > fn.out[2].score

\* C13: for ids and vectors of different lengths, topK returns rows of the
\* overlap only: every entry has an index below min(|ids|, |vectors|), the
\* id at that index and the score of the vector at that index, and there
\* are at most min(|ids|, |vectors|) entries.
C13_TopKOverlapOnly ==
  fn.op = "topK" /\ fn.returned /\ Len(fn.ids) # Len(fn.vectors) =>
    LET out == fn.out
        n == IF Len(fn.ids) < Len(fn.vectors) THEN Len(fn.ids)
             ELSE Len(fn.vectors)
    IN  /\ Len(out) <= n
        /\ \A j \in 1..Len(out) :
             /\ out[j].index \in 0..(n - 1)
             /\ out[j].id = fn.ids[out[j].index + 1]
             /\ out[j].score = fn.userVec[fn.vectors[out[j].index + 1]]
        /\ \A j, m \in 1..Len(out) : j < m => out[j].index # out[m].index
C13_Witness ==
  /\ fn.op = "topK" /\ fn.returned
  /\ Len(fn.ids) = 2 /\ Len(fn.vectors) = 3 /\ fn.k = Num(3)
  /\ fn.userVec[ChunkVec("c")] = 9000
  /\ Len(fn.out) = 2

\* C14: every request that ranks chunks does so with a count k that is an
\* integer in 3..8, and retrieves at most 8 rows and at least min(3, rows of
\* the corpus), on the orchestrator and on /api/ask.
C14_KClamped ==
  \A r \in Slots :
    LET rec == req[r]
        rows == IF rec.ep = "orch"
                  THEN Len(cache[rec.packId].embeddings.ids)
                  ELSE Len(AskIds)
    IN  \/ rec.ep = "orch" /\ rec.path = "rag"
        \/ rec.ep = "ask" /\ rec.pc = "askChat"
        => /\ ~rec.k.nan
           /\ rec.k.n \in 3..8
           /\ Len(rec.top) <= 8
           /\ Len(rec.top) >= Min(3, rows)

\* C15: once a pack is in the cache its entry stays: no step removes it or
\* changes its chunks, embeddings or Q&A entries; an entry whose Q&A
\* embeddings are set is left as it is; and a request that starts on a
\* cached pack reads no pack file.
C15_CacheEntryOnce ==
  [][\A p \in DOMAIN cache :
       /\ p \in DOMAIN cache'
       /\ cache'[p].chunks = cache[p].chunks
       /\ cache'[p].embeddings = cache[p].embeddings
       /\ cache'[p].qa = cache[p].qa
       /\ cache[p].qaEmbedModel = EMBED_MODEL => cache'[p] = cache[p]
       /\ \A r \in DOMAIN req :
            req[r].pc = "idle" /\ req'[r].pc # "idle" /\ req'[r].packId = p
              => req'[r].fileReads = 0]_vars
C15_Witness ==
  /\ req[1].pc = "awaitEmbed" /\ req[2].pc = "awaitQaEmbed"
  /\ req[1].packId = req[2].packId
  /\ req[1].fileReads = 0 /\ req[2].fileReads = 3

Contains(text, part) ==
  \E j \in 0..(Len(text) - Len(part)) : SubSeq(text, j + 1, j + Len(part)) = part
C17_ShortCircuitResponse ==
  \A r \in Slots :
    LET rec == req[r]
        qa == cache[rec.packId].qa[rec.qaHit.index]
    IN  rec.path = "qa" =>
          /\ rec.top = <<>> /\ rec.topChunks = <<>> /\ rec.prompt = NoPrompt
          /\ "completion" \notin Range(rec.calls)
          /\ rec.pc = "done" /\ rec.stream = "closed"
          /\ Len(rec.frames) = 2
          /\ rec.frames[1].type = "chunk"
          /\ Contains(rec.frames[1].delta, qa.a)
          /\ Contains(rec.frames[1].delta, ToFixed2(rec.qaHit.score))
          /\ rec.frames[2].type = "done"
          /\ Len(rec.frames[2].sources) = 1
          /\ rec.frames[2].sources[1].score = rec.qaHit.score
          /\ rec.frames[2].sources[1].id =
               IF qa.source_chunk = "" THEN qa.id ELSE qa.source_chunk
C17_Witness ==
  \E r \in Slots :
    /\ req[r].path = "qa"
    /\ req[r].packId = "scientific-advertising"
    /\ req[r].qaHit.index = 1
    /\ IdsOf(Last(req[r].frames).sources) = <<"c2">>

Successful(rec) ==
  StreamOver(rec) /\ \E j \in 1..Len(rec.frames) : rec.frames[j].type = "done"
MetaChunksDone(fs, q) ==
  /\ Len(fs) >= 2
  /\ fs[1].type = "meta" /\ fs[1].q = q
  /\ \A j \in 2..(Len(fs) - 1) : fs[j].type = "chunk"
  /\ Last(fs).type = "done"
C22_BestIsFirstMax ==
  (fn.op = "bestQa" /\ fn.returned) =>
    LET n == Len(fn.vectors)
        sim(j) == cosine(fn.userVec, fn.vectors[j])
    IN  /\ fn.out.hit <=> n > 0
        /\ fn.out.hit =>
             /\ fn.out.index \in 1..n
             /\ fn.out.score = sim(fn.out.index)
             /\ \A j \in 1..n : sim(j) <= fn.out.score
             /\ \A j \in 1..(fn.out.index - 1) : sim(j) < fn.out.score

\* C23: a completion call answered without success or without a body is
\* answered with one error frame and nothing else: HTTP status 500, the
\* message naming the status the upstream answered with; no stream is
\* opened, no upstream read is issued, no chunk or done frame is sent.
StatusNamed(message) ==
  CASE message = "LLM error: 200 " -> 200
    [] message = "LLM error: 429 " -> 429
    [] message = "LLM error: 500 " -> 500
    [] OTHER -> 0
C23_CompletionErrorIsClean ==
  \A r \in Slots :
    LET rec == req[r]
    IN  rec.upStatus # 0 =>
          /\ rec.pc = "done" /\ rec.resp = "sse-error" /\ rec.status = 500
          /\ rec.stream = "none" /\ rec.readsIssued = 0
          /\ Len(rec.frames) = 1
          /\ rec.frames[1].type = "error"
          /\ StatusNamed(rec.frames[1].message) = rec.upStatus
C23_Witness ==
  \E r \in Slots :
    /\ req[r].upStatus = 429
    /\ req[r].frames = <<ErrorFrame("LLM error: 429 ")>>
    /\ CountOf(req[r].calls, "completion") = 1

\* C24: however the upstream text is cut into reads, the relay forwards the
\* delta of every upstream frame as one chunk frame, in upstream order.
C24_RelayForwardsEveryDelta ==
  (fn.op = "relay" /\ fn.returned) =>
    ChunkDeltas(fn.out) = [j \in 1..Len(fn.ids) |-> <<fn.ids[j]>>]

\* C25: on the simulated transport, once the client has cancelled, the pump
\* timer that was already scheduled raises no unhandled error: no pump run
\* has thrown out of its timer callback.
C25_CancelledPumpIsQuiet ==
  \A r \in Slots :
    (req[r].ep = "sim" /\ req[r].stream = "cancelled") => req[r].uncaught = 0

\* C26: in every state the cached Q&A embeddings of a pack are either unset
\* or the complete list, one vector per qa entry in qa order; and a step in
\* which an embedding batch call fails leaves the cache as it was.
QaCacheUnsetOrComplete ==
  \A p \in DOMAIN cache :
    LET pk == cache[p]
    IN  \/ pk.qaEmbedModel = Nil /\ pk.qaEmbeds = <<>>
        \/ /\ pk.qaEmbedModel = EMBED_MODEL
           /\ pk.qaEmbeds = [i \in 1..Len(pk.qa) |-> QuestionVec(pk.qa[i].q)]
C26_QaCacheNeverPartial ==
  /\ []QaCacheUnsetOrComplete
  /\ [][\A r \in DOMAIN req :
          CountOf(req'[r].failed, "embedQa") > CountOf(req[r].failed, "embedQa")
            => cache' = cache]_vars
C26_Witness ==
  /\ "many-qa" \in DOMAIN cache
  /\ Len(cache["many-qa"].qaEmbeds) = QA_BATCH + 1
  /\ \E r1, r2 \in DOMAIN req :
       /\ req[r1].packId = "many-qa" /\ req[r1].failed = <<"embedQa">>
       /\ req[r1].calls = <<"embedQuery", "embedQa", "embedQa">>
       /\ req[r2].packId = "many-qa" /\ req[r2].pc = "decide"

\* C21: a message whose data is empty, is not JSON, is not an object or has
\* an unknown type leaves the answer, the sources, the error, the loading
\* flag and the connections as they were; and a chunk frame, whatever was
\* skipped before it, is appended to the end of the answer.
PageView(page) ==
  <<page.answer, page.sources, page.hasResult, page.error, page.loading,
    page.es, page.conns>>
C21_BadFrameSkipped ==
  [][(fn.op = "page" /\ fn'.msgs = fn.msgs + 1) =>
       LET f == fn'.last
       IN  /\ f.kind \in {"empty", "notjson", "nonobject", "unknown"}
                => PageView(fn') = PageView(fn)
           /\ (f.kind = "chunk" /\ f.delta # "")
                => /\ fn'.answer = Append(fn.answer, f.delta)
                   /\ fn'.loading = fn.loading /\ fn'.es = fn.es]_vars
C21_Witness ==
  /\ fn.op = "page" /\ fn.skipped
  /\ fn.last = PageFrame("chunk", "a", <<>>)
  /\ fn.answer = <<"a", "a">>
  /\ fn.loading /\ fn.es # 0

\* C29: the page holds at most one open connection, the one esRef names;
\* whenever esRef is null the loading flag is false; and while esRef stays
\* null nothing is appended to the answer.
PageOneConnection ==
  fn.op = "page" =>
    /\ \A c \in 1..Len(fn.conns) : fn.conns[c].open => c = fn.es
    /\ fn.es = 0 => ~fn.loading
C29_OneConnection ==
  /\ []PageOneConnection
  /\ [][(fn.op = "page" /\ fn.es = 0 /\ fn'.es = 0)
          => fn'.answer \in {fn.answer, <<>>}]_vars
C29_Witness ==
  /\ fn.op = "page"
  /\ Len(fn.conns) = 2 /\ fn.es = 2
  /\ ~fn.conns[1].open /\ fn.conns[2].open
  /\ fn.loading /\ fn.answer # <<>>

\* C30: the pack id the streaming handler receives for a connection the page
\* opened is the pack id the page held when it opened it.
C30_PackArrivesAsShown ==
  fn.op = "page" =>
    \A c \in 1..Len(fn.conns) : fn.conns[c].pack = fn.conns[c].uiPack

\* C27: after a run that is not dry, the records the run popped are either
\* in the query log or back at the head of the list, whichever step failed.
C27_NoPoppedRecordLost ==
  (fn.op = "mirror" /\ fn.ran /\ ~fn.dry) =>
    \/ fn.log = fn.recs
    \/ /\ Len(fn.list) >= Len(fn.recs)
       /\ SubSeq(fn.list, 1, Len(fn.recs)) = fn.recs

\* C28: after a dry run, and after a run whose log insert returned an error,
\* the list holds the entries it held before the run, in the same order.
C28_DryRunKeepsQueue ==
  (fn.op = "mirror" /\ fn.ran /\ (fn.dry \/ fn.outcome = "log_insert")) =>
    fn.list = fn.before

====
